---- MODULE Spec2Model ----
(***************************************************************************)
(* A model of the spelling quiz server (src/main.py): the word catalog,    *)
(* the quiz generator, the answer grader of check_answers and the SQLite   *)
(* attempt store it writes to.                                             *)
(*                                                                         *)
(* Python strings are TLA+ strings, handled character by character         *)
(* (SubSeq(s, i, i) is the i-th character).  Python's None is the empty    *)
(* tuple and a present optional value v is the one-element tuple <<v>>.    *)
(***************************************************************************)
EXTENDS Integers, Sequences, FiniteSets, TLC

VARIABLES
    WORD_GROUPS,    \* the module-level catalog list (a mutable Python global)
    quiz_response,  \* the body of the last reply of GET /api/quiz, or None
    graded,         \* the grading loop applied to a request for that quiz, on its own
    local,          \* per handler thread: the locals of check_answers
    db,             \* the committed content of quiz_data.db
    conn,           \* per handler thread: the open connection's transaction
    write_lock      \* the thread holding SQLite's write lock, or None

vars == <<WORD_GROUPS, quiz_response, graded, local, db, conn, write_lock>>

----------------------------------------------------------------------------
(* Bounds of the model. *)

\* The longest answers list a client submits.
MaxAnswers == 2

\* Requests are accepted while fewer than MaxAttempts attempts are stored.
MaxAttempts == 2

----------------------------------------------------------------------------
(* Optional values. *)

None == <<>>

Some(v) == <<v>>

Val(o) == o[1]

----------------------------------------------------------------------------
(* Strings. *)

LOWERCASE == "abcdefghijklmnopqrstuvwxyz"

UPPERCASE == "ABCDEFGHIJKLMNOPQRSTUVWXYZ"

\* The characters str.strip() removes.
WHITESPACE == {" ", "\t", "\n", "\r"}

CharAt(s, i) == SubSeq(s, i, i)

\* str.lower() and str.upper() letter by letter: each letter of one case
\* mapped to the letter at its position in the other.
LOWER_OF ==
    [c \in {CharAt(UPPERCASE, i) : i \in 1..Len(UPPERCASE)} |->
        CharAt(LOWERCASE, CHOOSE i \in 1..Len(UPPERCASE) : CharAt(UPPERCASE, i) = c)]

UPPER_OF ==
    [c \in {CharAt(LOWERCASE, i) : i \in 1..Len(LOWERCASE)} |->
        CharAt(UPPERCASE, CHOOSE i \in 1..Len(LOWERCASE) : CharAt(LOWERCASE, i) = c)]

\* One character of str.lower(): an upper-case letter becomes its lower-case
\* letter and every other character stays.
lower_char(c) == IF c \in DOMAIN LOWER_OF THEN LOWER_OF[c] ELSE c

upper_char(c) == IF c \in DOMAIN UPPER_OF THEN UPPER_OF[c] ELSE c

RECURSIVE str_lower(_)
str_lower(s) ==
    IF Len(s) = 0 THEN ""
    ELSE lower_char(CharAt(s, 1)) \o str_lower(SubSeq(s, 2, Len(s)))

RECURSIVE str_upper(_)
str_upper(s) ==
    IF Len(s) = 0 THEN ""
    ELSE upper_char(CharAt(s, 1)) \o str_upper(SubSeq(s, 2, Len(s)))

\* str.lstrip() and str.rstrip(): whitespace taken off one end.
RECURSIVE str_lstrip(_)
str_lstrip(s) ==
    IF Len(s) > 0 /\ CharAt(s, 1) \in WHITESPACE
    THEN str_lstrip(SubSeq(s, 2, Len(s)))
    ELSE s

RECURSIVE str_rstrip(_)
str_rstrip(s) ==
    IF Len(s) > 0 /\ CharAt(s, Len(s)) \in WHITESPACE
    THEN str_rstrip(SubSeq(s, 1, Len(s) - 1))
    ELSE s

\* str.strip(): the string without its leading and trailing whitespace.
str_strip(s) == str_rstrip(str_lstrip(s))

\* Python's round() of the fraction num/den (den > 0): the nearest integer,
\* a tie going to the even one.  The code rounds the float
\* correct_count / total_count * 100; the float and the fraction round alike
\* whenever the fraction is no tie, and a tie needs den to be a multiple of 8.
round(num, den) ==
    LET q == num \div den
        r == num % den
    IN  IF 2 * r < den THEN q
        ELSE IF 2 * r > den THEN q + 1
        ELSE IF q % 2 = 0 THEN q ELSE q + 1

RECURSIVE SumSeq(_)
SumSeq(s) == IF Len(s) = 0 THEN 0 ELSE Head(s) + SumSeq(Tail(s))

----------------------------------------------------------------------------
(* The word catalog. *)

COUNTRIES == {"us", "ca", "gb", "au", "nz"}

CATALOG ==
    << [name |-> "Group 1", level |-> 1, words |-> <<
          [us |-> "canceled", ca |-> "cancelled", gb |-> "cancelled", au |-> "cancelled", nz |-> "cancelled"],
          [us |-> "traveled", ca |-> "travelled", gb |-> "travelled", au |-> "travelled", nz |-> "travelled"] >>],
       [name |-> "Group 2", level |-> 1, words |-> <<
          [us |-> "defense", ca |-> "defence", gb |-> "defence", au |-> "defence", nz |-> "defence"] >>],
       [name |-> "Group 3", level |-> 1, words |-> <<
          [us |-> "learned", ca |-> "learnt", gb |-> "learnt", au |-> "learnt", nz |-> "learnt"],
          [us |-> "dreamed", ca |-> "dreamt", gb |-> "dreamt", au |-> "dreamt", nz |-> "dreamt"] >>],
       [name |-> "Group 4", level |-> 1, words |-> <<
          [us |-> "catalog", ca |-> "catalogue", gb |-> "catalogue", au |-> "catalogue", nz |-> "catalogue"],
          [us |-> "dialog", ca |-> "dialogue", gb |-> "dialogue", au |-> "dialogue", nz |-> "dialogue"] >>],
       [name |-> "Group 5", level |-> 2, words |-> <<
          [us |-> "tire", ca |-> "tire", gb |-> "tyre", au |-> "tyre", nz |-> "tyre"] >>],
       [name |-> "Group 6", level |-> 2, words |-> <<
          [us |-> "colorize", ca |-> "colourize", gb |-> "colourise", au |-> "colourise", nz |-> "colourise"] >>],
       [name |-> "Group 7", level |-> 3, words |-> <<
          [us |-> "program", ca |-> "program", gb |-> "program", au |-> "program", nz |-> "program",
           note |-> "computer program"] >>],
       [name |-> "Group 8", level |-> 3, words |-> <<
          [us |-> "program", ca |-> "program", gb |-> "programme", au |-> "program", nz |-> "programme",
           note |-> "concert program"] >>] >>

LEVEL_DESCRIPTIONS ==
    [i \in 1..3 |->
        CASE i = 1 -> "Words spelled the same in every country other than the US"
          [] i = 2 -> "Words spelled differently in non-US countries"
          [] i = 3 -> "Words spelled differently depending on context"]

----------------------------------------------------------------------------
(* The quiz generator. *)

\* The outcomes of the random.randint calls of one select_words call: for
\* each group, a 1-based position in its words.
RECURSIVE PicksOfFirst(_, _)
PicksOfFirst(groups, n) ==
    IF n = 0 THEN {<<>>}
    ELSE {Append(p, i) : p \in PicksOfFirst(groups, n - 1),
                         i \in 1..Len(groups[n].words)}

Picks(groups) == PicksOfFirst(groups, Len(groups))

\* select_words without the .copy(): groupIndex and level are written into
\* the catalog's own dictionaries.
select_words_shared(groups, pick) ==
    [selected_words |->
        [g \in 1..Len(groups) |->
            [groupIndex |-> g - 1, level |-> groups[g].level]
                @@ groups[g].words[pick[g]]],
     groups |->
        [g \in 1..Len(groups) |->
            [groups[g] EXCEPT !.words[pick[g]] =
                [groupIndex |-> g - 1, level |-> groups[g].level] @@ @]]]

\* select_words with its random choices given: the selected words, and the
\* catalog as the call leaves it.  Each word is a copy of the catalog's
\* dictionary, so that adding groupIndex and level to it leaves the catalog
\* as it was.
select_words(groups, pick) ==
    [selected_words |->
        [g \in 1..Len(groups) |->
            [groupIndex |-> g - 1, level |-> groups[g].level]
                @@ groups[g].words[pick[g]]],
     groups |-> groups]

\* word.get("note", "")
get_note(word) == IF "note" \in DOMAIN word THEN word.note ELSE ""

generate_quiz_data(selected_words) ==
    [i \in 1..Len(selected_words) |->
        LET word == selected_words[i]
        IN  [us |-> word.us, ca |-> word.ca, gb |-> word.gb, au |-> word.au,
             nz |-> word.nz, note |-> get_note(word), level |-> word.level]]

\* GET /api/quiz
get_quiz ==
    \E pick \in Picks(WORD_GROUPS) :
        LET sel == select_words(WORD_GROUPS, pick)
        IN  /\ WORD_GROUPS' = sel.groups
            /\ quiz_response' =
                 Some([quizData |-> generate_quiz_data(sel.selected_words),
                       levelDescriptions |-> LEVEL_DESCRIPTIONS])
            /\ graded' = None
            /\ UNCHANGED <<local, db, conn, write_lock>>

----------------------------------------------------------------------------
(* The answer grader: the loop of check_answers over the submitted answers. *)

\* The keys of a question whose value is a string (level is an integer).
STRING_KEYS == COUNTRIES \cup {"note"}

\* quiz_data[word_index] is defined for -len <= word_index < len: Python
\* counts a negative index from the end of the list.
index_in_range(quiz_data, word_index) ==
    /\ word_index >= -Len(quiz_data)
    /\ word_index < Len(quiz_data)

list_item(quiz_data, word_index) ==
    IF word_index >= 0 THEN quiz_data[word_index + 1]
    ELSE quiz_data[Len(quiz_data) + word_index + 1]

\* The test that decides whether a non-level-1 answer is graded:
\* `country and country in word`, on the question's dictionary.
country_accepted(word, country) ==
    /\ country # None
    /\ Val(country) # ""
    /\ Val(country) \in DOMAIN word

\* The answer compared without the strip().
compared_answer_untrimmed(answer) == str_lower(answer)

\* Line 226: the answer as it is compared, trimmed and in lower case.
compared_answer(answer) == str_lower(str_strip(answer))

\* The state of the loop before any answer: results, correct_count and
\* total_count, and the exception that ended the loop, if one did.
grade_start ==
    [results |-> <<>>, correct_count |-> 0, total_count |-> 0, error |-> None]

\* One iteration of the loop, from the loop state acc.
grade_answer(quiz_data, acc, answer_data) ==
    LET word_index  == answer_data.wordIndex
        is_level1   == answer_data.isLevel1
        user_answer == compared_answer(answer_data.answer)
    IN  IF ~index_in_range(quiz_data, word_index)
        THEN [acc EXCEPT !.error = Some("IndexError")]
        ELSE
        LET word   == list_item(quiz_data, word_index)
            result == [wordIndex |-> word_index, isLevel1 |-> is_level1,
                       correct |-> FALSE, correctAnswer |-> None,
                       userAnswer |-> str_strip(answer_data.answer),
                       country |-> None]
        IN  IF is_level1
            THEN LET correct_answer == word.ca
                     hit == user_answer = str_lower(correct_answer)
                 IN  [acc EXCEPT
                        !.results = Append(@, [result EXCEPT
                                        !.correctAnswer = Some(correct_answer),
                                        !.correct = hit]),
                        !.total_count = @ + 1,
                        !.correct_count = IF hit THEN @ + 1 ELSE @]
            ELSE LET country == answer_data.country
                 IN  IF country_accepted(word, country)
                     THEN IF Val(country) \notin STRING_KEYS
                          THEN \* word["level"].lower(): an int has no lower()
                               [acc EXCEPT !.total_count = @ + 1,
                                           !.error = Some("AttributeError")]
                          ELSE LET correct_answer == word[Val(country)]
                                   hit == user_answer = str_lower(correct_answer)
                               IN  [acc EXCEPT
                                      !.results = Append(@, [result EXCEPT
                                                      !.correctAnswer = Some(correct_answer),
                                                      !.country = country,
                                                      !.correct = hit]),
                                      !.total_count = @ + 1,
                                      !.correct_count = IF hit THEN @ + 1 ELSE @]
                     ELSE [acc EXCEPT !.results = Append(@, result)]

\* The loop over the first n answers; an exception ends it.
RECURSIVE grade_loop(_, _, _)
grade_loop(quiz_data, answers, n) ==
    IF n = 0 THEN grade_start
    ELSE LET acc == grade_loop(quiz_data, answers, n - 1)
         IN  IF acc.error # None THEN acc
             ELSE grade_answer(quiz_data, acc, answers[n])

\* The percentage with nothing graded taken for a full score.
percentage_of_empty_full(correct_count, total_count) ==
    IF total_count > 0 THEN round(correct_count * 100, total_count) ELSE 100

\* correct_count / total_count * 100, rounded, or 0 with nothing graded.
percentage_of(correct_count, total_count) ==
    IF total_count > 0 THEN round(correct_count * 100, total_count) ELSE 0

\* Lines 219-261: the loop and the final percentage.
grade(quiz_data, answers) ==
    LET acc == grade_loop(quiz_data, answers, Len(answers))
    IN  [results |-> acc.results,
         correct_count |-> acc.correct_count,
         total_count |-> acc.total_count,
         error |-> acc.error,
         percentage |-> IF acc.error = None
                        THEN Some(percentage_of(acc.correct_count, acc.total_count))
                        ELSE None]

----------------------------------------------------------------------------
(* The requests of the model's clients. *)

\* An answer as a user types it: capitalised, with a trailing blank.
Capitalized(s) == upper_char(CharAt(s, 1)) \o SubSeq(s, 2, Len(s)) \o " "

\* An answer typed in capitals between blanks.
PaddedCaps(s) == "  " \o str_upper(s) \o " "

Submission(i, l1, c, a) ==
    [wordIndex |-> i, isLevel1 |-> l1, country |-> c, answer |-> a]

\* The country fields the grading specification submits: absent, empty,
\* no key of a question, the two keys of a question that are no country,
\* and two countries whose spellings of a level-2 word differ.
SubmittedCountries ==
    {None, Some(""), Some("fr"), Some("note"), Some("level"), Some("ca"), Some("gb")}

\* The submissions of the grading specification, for the quiz q: level-1
\* answers to the first question, answers per country to the sixth (a
\* level-2 question), and indexes at and beyond both ends of the quiz.
GradeSubmissions(q) ==
    LET n == Len(q)
    IN  {Submission(0, TRUE, None, a) : a \in {Capitalized(q[1].ca), q[1].us, ""}}
        \cup {Submission(5, FALSE, c, a) :
                 c \in SubmittedCountries, a \in {PaddedCaps(q[6].gb), q[6].ca}}
        \cup {Submission(5, FALSE, Some("note"), ""),
              Submission(5, TRUE, None, q[6].gb),
              Submission(-1, FALSE, Some("gb"), q[n].gb),
              Submission(-n, TRUE, None, q[1].ca),
              Submission(n, TRUE, None, ""),
              Submission(-n - 1, TRUE, None, "")}

\* The lists of at most n submissions out of S.
AnswerLists(S, n) == UNION {[1..k -> S] : k \in 0..n}

----------------------------------------------------------------------------
(* The attempt store: the SQLite file and the connections to it. *)

\* The threads of the server that handle POST /api/check.
Handlers == {1, 2}

\* The empty tables init_database creates.
init_database == [quiz_attempts |-> <<>>, quiz_answers |-> <<>>]

\* INTEGER PRIMARY KEY AUTOINCREMENT: one more than the largest id the table
\* ever held; no row is ever deleted, so that is the last row's id.
next_id(table) == IF Len(table) = 0 THEN 1 ELSE table[Len(table)].id + 1

\* INSERT OR REPLACE with the id left at 1: the row takes the place of the
\* table's rows.
insert_row_replacing(d, table, row) ==
    IF table = "quiz_attempts"
    THEN [d EXCEPT !.quiz_attempts = <<[id |-> 1] @@ row>>]
    ELSE [d EXCEPT !.quiz_answers = <<[id |-> 1] @@ row>>]

\* The tables d with one more row in quiz_attempts or quiz_answers.
insert_row(d, table, row) ==
    IF table = "quiz_attempts"
    THEN [d EXCEPT !.quiz_attempts = Append(@, [id |-> next_id(@)] @@ row)]
    ELSE [d EXCEPT !.quiz_answers = Append(@, [id |-> next_id(@)] @@ row)]

\* cursor.execute on a connection in autocommit mode (isolation_level None):
\* every INSERT is committed as it runs.
cursor_execute_autocommit(committed, tx, table, row) ==
    [db |-> insert_row(committed, table, row),
     tx |-> Some(insert_row(committed, table, row))]

\* cursor.execute of an INSERT on a connection of get_db_connection, whose
\* isolation level is sqlite3's default: the INSERT runs in a transaction
\* the connection opens implicitly, and its row is in the connection's view
\* (tx) only, not in the committed tables.
cursor_execute(committed, tx, table, row) ==
    [db |-> committed,
     tx |-> Some(insert_row(IF tx = None THEN committed ELSE Val(tx), table, row))]

\* conn.commit(): the connection's view becomes the committed tables.
conn_commit(committed, tx) == IF tx = None THEN committed ELSE Val(tx)

\* A close that commits what is pending, as `with conn:` does on success.
conn_close_committing(committed, tx) == IF tx = None THEN committed ELSE Val(tx)

\* closing(conn) leaving its block: the connection closes, and what it has
\* not committed is rolled back.
conn_close(committed, tx) == committed

\* The NOT NULL columns of quiz_answers that can be handed None.
violates_not_null(row) == row.correct_answer = None

\* get_statistics counting as perfect the attempts with no wrong answer
\* (correct_count = total_count) instead of those with final_score 100.
get_statistics_no_wrong(d) ==
    LET scores == [i \in 1..Len(d.quiz_attempts) |-> d.quiz_attempts[i].final_score]
        total  == Len(scores)
        sum    == SumSeq(scores)
    IN  [total_attempts |-> total,
         average_score  |-> IF total > 0 /\ sum # 0 THEN round(sum, total) ELSE 0,
         perfect_scores |-> Cardinality({i \in 1..total :
             d.quiz_attempts[i].correct_count = d.quiz_attempts[i].total_count})]

\* get_statistics, on the committed tables d.
get_statistics(d) ==
    LET scores == [i \in 1..Len(d.quiz_attempts) |-> d.quiz_attempts[i].final_score]
        total  == Len(scores)
        sum    == SumSeq(scores)
    IN  [total_attempts |-> total,
         average_score  |-> IF total > 0 /\ sum # 0 THEN round(sum, total) ELSE 0,
         perfect_scores |-> Cardinality({i \in 1..total : scores[i] = 100})]

----------------------------------------------------------------------------
(* POST /api/check: check_answers, one step per database call. *)

\* The client address and the clock are read but decide nothing here: one
\* client, one instant.
REMOTE_ADDR == "127.0.0.1"

NOW == "2024-01-01T00:00:00"

\* A thread that handles no request: no locals.
idle ==
    [pc |-> "idle", results |-> <<>>, correct_count |-> 0, total_count |-> 0,
     percentage |-> 0, attempt_id |-> None, n_inserted |-> 0, response |-> None]

Init ==
    /\ WORD_GROUPS = CATALOG
    /\ quiz_response = None
    /\ graded = None
    /\ local = [h \in Handlers |-> idle]
    /\ db = init_database
    /\ conn = [h \in Handlers |-> None]
    /\ write_lock = None

\* The submissions of the server specifications, for the quiz q: a right
\* answer for a country at index -1, an answer with no country, and an
\* index past the end of the quiz.
ServerSubmissions(q) ==
    {Submission(-1, FALSE, Some("gb"), Capitalized(q[Len(q)].gb)),
     Submission(4, FALSE, None, q[5].gb),
     Submission(Len(q), TRUE, None, q[1].ca)}

\* The requests in progress: graded and not yet committed or failed.
InFlight == {h \in Handlers : local[h].pc \in {"graded", "inserting"}}

\* An exception leaves check_answers: the connection, if open, is closed
\* without a commit, the locals are gone, and Flask answers 500.
raise(h, exception) ==
    /\ local' = [local EXCEPT ![h] =
            [idle EXCEPT !.pc = "failed",
                         !.response = Some([status |-> 500, error |-> exception])]]
    /\ db' = conn_close(db, conn[h])
    /\ conn' = [conn EXCEPT ![h] = None]
    /\ write_lock' = IF write_lock = Some(h) THEN None ELSE write_lock

\* Lines 210-264: the request arrives and is graded.
begin_request(h, quiz_data, answers) ==
    /\ local[h].pc \in {"idle", "done", "failed"}
    /\ Len(db.quiz_attempts) + Cardinality(InFlight) < MaxAttempts
    /\ \E out \in {grade(quiz_data, answers)} :
          IF out.error # None
          THEN raise(h, Val(out.error))
          ELSE /\ local' = [local EXCEPT ![h] =
                       [idle EXCEPT !.pc = "graded",
                           !.results = out.results,
                           !.correct_count = out.correct_count,
                           !.total_count = out.total_count,
                           !.percentage = Val(out.percentage)]]
               /\ UNCHANGED <<db, conn, write_lock>>
    /\ UNCHANGED <<WORD_GROUPS, quiz_response, graded>>

\* Lines 265-274: the connection opens and the attempt row is inserted, which
\* takes SQLite's write lock.
insert_attempt(h) ==
    /\ local[h].pc = "graded"
    /\ write_lock = None
    /\ LET row == [ip_address |-> REMOTE_ADDR, timestamp |-> NOW,
                   final_score |-> local[h].percentage,
                   correct_count |-> local[h].correct_count,
                   total_count |-> local[h].total_count]
       IN  \E after \in {cursor_execute(db, conn[h], "quiz_attempts", row)} :
             /\ db' = after.db
             /\ conn' = [conn EXCEPT ![h] = after.tx]
             /\ local' = [local EXCEPT
                    ![h].pc = "inserting",
                    \* cursor.lastrowid
                    ![h].attempt_id =
                        Some(Val(after.tx).quiz_attempts[Len(Val(after.tx).quiz_attempts)].id)]
    /\ write_lock' = Some(h)
    /\ UNCHANGED <<WORD_GROUPS, quiz_response, graded>>

\* The row of quiz_answers lines 282-290 build from a result.
answer_row(attempt_id, result) ==
    [attempt_id |-> attempt_id,
     word_index |-> result.wordIndex,
     is_level1 |-> IF result.isLevel1 THEN 1 ELSE 0,
     country |-> result.country,
     user_answer |-> result.userAnswer,
     correct_answer |-> result.correctAnswer,
     is_correct |-> IF result.correct THEN 1 ELSE 0]

\* Lines 277-290: one iteration of the loop over results.
insert_answer(h) ==
    /\ local[h].pc = "inserting"
    /\ local[h].n_inserted < Len(local[h].results)
    /\ LET row == answer_row(Val(local[h].attempt_id),
                             local[h].results[local[h].n_inserted + 1])
       IN  IF violates_not_null(row)
           THEN raise(h, "IntegrityError")
           ELSE \E after \in {cursor_execute(db, conn[h], "quiz_answers", row)} :
                  /\ db' = after.db
                  /\ conn' = [conn EXCEPT ![h] = after.tx]
                  /\ local' = [local EXCEPT ![h].n_inserted = @ + 1]
                  /\ UNCHANGED write_lock
    /\ UNCHANGED <<WORD_GROUPS, quiz_response, graded>>

\* Line 292, and the end of the with block.
commit(h) ==
    /\ local[h].pc = "inserting"
    /\ local[h].n_inserted = Len(local[h].results)
    /\ db' = conn_close(conn_commit(db, conn[h]), None)
    /\ conn' = [conn EXCEPT ![h] = None]
    /\ write_lock' = None
    /\ local' = [local EXCEPT ![h].pc = "committed"]
    /\ UNCHANGED <<WORD_GROUPS, quiz_response, graded>>

\* Lines 294-305: the statistics are read and the reply is built.
respond(h) ==
    /\ local[h].pc = "committed"
    /\ local' = [local EXCEPT ![h] =
            [idle EXCEPT
                !.pc = "done",
                !.response = Some([status |-> 200,
                    results |-> local[h].results,
                    score |-> [correct |-> local[h].correct_count,
                               total |-> local[h].total_count,
                               percentage |-> local[h].percentage],
                    statistics |-> get_statistics(db)])]]
    /\ UNCHANGED <<WORD_GROUPS, quiz_response, graded, db, conn, write_lock>>

\* A database call of lines 265-292 raises sqlite3.OperationalError: the
\* file is locked by another writer, the disk is full, the file is damaged.
store_failure(h) ==
    /\ local[h].pc \in {"graded", "inserting"}
    /\ raise(h, "OperationalError")
    /\ UNCHANGED <<WORD_GROUPS, quiz_response, graded>>

check_answers(h) ==
    \/ /\ quiz_response # None
       /\ \E answers \in AnswerLists(ServerSubmissions(Val(quiz_response).quizData), MaxAnswers) :
             begin_request(h, Val(quiz_response).quizData, answers)
    \/ insert_attempt(h)
    \/ insert_answer(h)
    \/ commit(h)
    \/ respond(h)
    \/ store_failure(h)

\* The server with one thread handling the submissions.
Next ==
    \/ get_quiz
    \/ check_answers(1)

Spec == Init /\ [][Next]_vars

\* The server with its threads handling submissions side by side, after a
\* quiz was fetched.
InitConc ==
    /\ WORD_GROUPS = CATALOG
    /\ quiz_response =
         Some([quizData |-> generate_quiz_data(
                   select_words(CATALOG, [g \in 1..Len(CATALOG) |-> 1]).selected_words),
               levelDescriptions |-> LEVEL_DESCRIPTIONS])
    /\ graded = None
    /\ local = [h \in Handlers |-> idle]
    /\ db = init_database
    /\ conn = [h \in Handlers |-> None]
    /\ write_lock = None

NextConc == \E h \in Handlers : check_answers(h)

SpecConc == InitConc /\ [][NextConc]_vars

----------------------------------------------------------------------------
(* The grader on its own: the grading specification. *)

\* Lines 210-261 of check_answers applied, once, to a request that echoes
\* the quiz.
grade_request ==
    /\ quiz_response # None
    /\ graded = None
    /\ \E answers \in AnswerLists(GradeSubmissions(Val(quiz_response).quizData), MaxAnswers) :
          graded' = Some([quizData |-> Val(quiz_response).quizData,
                          answers |-> answers,
                          out |-> grade(Val(quiz_response).quizData, answers)])
    /\ UNCHANGED <<WORD_GROUPS, quiz_response, local, db, conn, write_lock>>

NextGrade ==
    \/ get_quiz
    \/ grade_request

SpecGrade == Init /\ [][NextGrade]_vars

----------------------------------------------------------------------------
(* Properties of the grader, under SpecGrade. *)

\* A request was graded and no exception ended the loop.
GradedOK == graded # None /\ Val(graded).out.error = None

\* The i-th submission of the graded request names one of the five countries.
KnownCountry(i) ==
    /\ Val(graded).answers[i].country # None
    /\ Val(Val(graded).answers[i].country) \in COUNTRIES

\* C3: a submission with isLevel1 false is graded only if its country is one
\* of us, ca, gb, au, nz; otherwise it is skipped: it leaves correct_count and
\* total_count alone, and its result has correct false and no correctAnswer.
C3_UnknownCountryIsSkipped ==
    GradedOK =>
        LET g == Val(graded)
            counted == {i \in 1..Len(g.answers) :
                            g.answers[i].isLevel1 \/ KnownCountry(i)}
        IN  /\ \A i \in 1..Len(g.answers) :
                 (~g.answers[i].isLevel1 /\ ~KnownCountry(i)) =>
                    /\ g.out.results[i].correct = FALSE
                    /\ g.out.results[i].correctAnswer = None
            /\ g.out.total_count = Cardinality(counted)
            /\ g.out.correct_count =
                 Cardinality({i \in counted : g.out.results[i].correct})

\* C4, as claimed: the percentage of a graded request is an integer from 0 to
\* 100, and it is 0 exactly when total_count is 0.
C4_ZeroExactlyWhenNothingGraded ==
    GradedOK =>
        LET out == Val(graded).out
        IN  /\ Val(out.percentage) \in 0..100
            /\ (Val(out.percentage) = 0) <=> (out.total_count = 0)

\* C4, amended: the percentage of a graded request is an integer from 0 to
\* 100; it is 0 whenever total_count is 0; and with total_count below 200 it
\* is 0 exactly when correct_count is 0, so also when answers were graded and
\* none was right.
C4_PercentageRange ==
    GradedOK =>
        LET out == Val(graded).out
        IN  /\ Val(out.percentage) \in 0..100
            /\ (out.total_count = 0) => (Val(out.percentage) = 0)
            /\ (out.total_count < 200) =>
                 ((Val(out.percentage) = 0) <=> (out.correct_count = 0))

\* A request with two graded answers, one of them right, scores 50.
C4_Witness ==
    /\ GradedOK
    /\ Val(graded).out.total_count = 2
    /\ Val(graded).out.correct_count = 1
    /\ Val(graded).out.percentage = Some(50)

\* C5: a graded submission is correct exactly when its answer, trimmed and in
\* lower case, equals the expected spelling in lower case, the expected
\* spelling being the question's ca for a level-1 submission and the
\* question's spelling for the submitted country otherwise.  So the right
\* spelling typed in capitals between blanks is correct, the US spelling is
\* wrong for level 1 where it differs, and the spelling of a country whose
\* spelling differs is wrong.
C5_CorrectIffSpellingMatches ==
    GradedOK =>
        LET g == Val(graded)
        IN  \A i \in 1..Len(g.answers) :
              (g.answers[i].isLevel1 \/ KnownCountry(i)) =>
                LET a == g.answers[i]
                    r == g.out.results[i]
                    word == list_item(g.quizData, a.wordIndex)
                    expected == IF a.isLevel1 THEN word.ca
                                ELSE word[Val(a.country)]
                IN  /\ r.correctAnswer = Some(expected)
                    /\ r.correct <=>
                         (str_lower(str_strip(a.answer)) = str_lower(expected))
                    /\ (a.answer \in {Capitalized(expected), PaddedCaps(expected)})
                         => r.correct
                    /\ (a.isLevel1 /\ a.answer = word.us /\ word.us # word.ca)
                         => ~r.correct
                    /\ \A c \in COUNTRIES :
                         (/\ ~a.isLevel1
                          /\ word[c] # expected
                          /\ a.answer \in {word[c], PaddedCaps(word[c])})
                         => ~r.correct

\* A request whose first answer is the gb spelling in capitals between
\* blanks, right for gb, and whose second is the same answer for ca, wrong.
C5_Witness ==
    /\ GradedOK
    /\ Len(Val(graded).answers) = 2
    /\ Val(graded).answers[1] =
         Submission(5, FALSE, Some("gb"), "  COLOURISE ")
    /\ Val(graded).out.results[1].correct
    /\ Val(graded).answers[2] =
         Submission(5, FALSE, Some("ca"), "  COLOURISE ")
    /\ ~Val(graded).out.results[2].correct

\* C9: every reply of get_quiz holds one question per group of the catalog,
\* in the catalog's order, each one of its group's words with the five
\* spellings and the group's level; and the catalog stays as it was loaded.
C9_OneQuestionPerGroup ==
    /\ WORD_GROUPS = CATALOG
    /\ quiz_response # None =>
         LET q == Val(quiz_response).quizData
         IN  /\ Len(q) = Len(CATALOG)
             /\ \A i \in 1..Len(CATALOG) :
                  /\ COUNTRIES \subseteq DOMAIN q[i]
                  /\ q[i].level = CATALOG[i].level
                  /\ \E w \in 1..Len(CATALOG[i].words) :
                       \A c \in COUNTRIES : q[i][c] = CATALOG[i].words[w][c]

\* A reply whose first question is the second word of the first group.
C9_Witness ==
    /\ quiz_response # None
    /\ Val(quiz_response).quizData[1].ca = "travelled"
    /\ Val(quiz_response).quizData[8].note = "concert program"

----------------------------------------------------------------------------
(* Properties of the server, under Spec and SpecConc. *)

\* The rows of quiz_answers in d that reference the attempt id.
AnswersOf(d, id) ==
    SelectSeq(d.quiz_answers, LAMBDA row : row.attempt_id = id)

AttemptIds(d) == {d.quiz_attempts[i].id : i \in 1..Len(d.quiz_attempts)}

\* What a reader of the committed tables sees is whole attempts only.
WholeAttempts ==
    /\ \A i \in 1..Len(db.quiz_answers) :
         db.quiz_answers[i].attempt_id \in AttemptIds(db)
    /\ \A i \in 1..Len(db.quiz_attempts) :
         LET attempt == db.quiz_attempts[i]
             rows == AnswersOf(db, attempt.id)
         IN  /\ Len(rows) = attempt.total_count
             /\ Len(SelectSeq(rows, LAMBDA row : row.is_correct = 1))
                  = attempt.correct_count
    /\ \A h \in Handlers :
         /\ local[h].pc = "inserting" =>
              /\ Val(local[h].attempt_id) \notin AttemptIds(db)
              /\ AnswersOf(db, Val(local[h].attempt_id)) = <<>>
         /\ local[h].pc = "committed" =>
              /\ Val(local[h].attempt_id) \in AttemptIds(db)
              /\ LET rows == AnswersOf(db, Val(local[h].attempt_id))
                 IN  /\ Len(rows) = Len(local[h].results)
                     /\ \A k \in 1..Len(rows) :
                          rows[k] = [id |-> rows[k].id] @@
                              answer_row(Val(local[h].attempt_id), local[h].results[k])

\* A request that fails while it inserts leaves nothing of its attempt, in
\* the committed tables or pending.
FailedInsertLeavesNothing ==
    \A h \in Handlers :
        (local[h].pc = "inserting" /\ local'[h].pc = "failed") =>
            /\ Val(local[h].attempt_id) \notin AttemptIds(db')
            /\ AnswersOf(db', Val(local[h].attempt_id)) = <<>>
            /\ conn'[h] = None

\* C1: recording an attempt is atomic for every reader of the committed
\* tables: every visible answer row references a visible attempt row, every
\* visible attempt row has all its answer rows, one per graded result, and
\* when an insert of the loop fails neither the attempt row nor any of its
\* answer rows is committed.
C1_AttemptRecordedAtomically ==
    [][WholeAttempts /\ WholeAttempts' /\ FailedInsertLeavesNothing]_vars

\* One attempt is committed, and a request has inserted its attempt row and
\* its first answer row and is about to fail on the second.
C1_Witness ==
    \E h \in Handlers :
        /\ local[h].pc = "inserting"
        /\ local[h].n_inserted = 1
        /\ Len(local[h].results) = 2
        /\ local[h].results[2].correctAnswer = None
        /\ Len(db.quiz_attempts) = 1
        /\ Len(Val(conn[h]).quiz_answers) = Len(db.quiz_answers) + 1

\* The results hold a skipped submission: not level 1, no country accepted.
HasSkipped(results) ==
    \E i \in 1..Len(results) :
        ~results[i].isLevel1 /\ results[i].correctAnswer = None

ValidIndexes(results) ==
    \A i \in 1..Len(results) : results[i].wordIndex \in 0..(Len(CATALOG) - 1)

\* C2: a request with a non-level-1 submission whose country is missing or
\* unknown, with every wordIndex valid and the store healthy, does not fail:
\* its attempt is committed and answered.  Here: such a request never fails
\* while it inserts, unless the store fails.
C2_SkippedSubmissionDoesNotFail ==
    [][\A h \in Handlers :
          (/\ local[h].pc = "inserting"
           /\ HasSkipped(local[h].results)
           /\ ValidIndexes(local[h].results)
           /\ local'[h].pc = "failed")
          => Val(local'[h].response).error = "OperationalError"]_vars

\* C6: the commit of an attempt raises what get_statistics returns for
\* total_attempts by exactly 1, and for perfect_scores by 1 if the attempt's
\* percentage is 100 and by 0 otherwise.
C6_StatisticsCountTheAttempt ==
    [][\A h \in Handlers :
          (local[h].pc = "inserting" /\ local'[h].pc = "committed") =>
              LET before == get_statistics(db)
                  after  == get_statistics(db')
              IN  /\ after.total_attempts = before.total_attempts + 1
                  /\ after.perfect_scores = before.perfect_scores +
                        (IF local[h].percentage = 100 THEN 1 ELSE 0)]_vars

\* A perfect attempt was just committed after an attempt that is not.
C6_Witness ==
    \E h \in Handlers :
        /\ local[h].pc = "committed"
        /\ local[h].percentage = 100
        /\ Len(db.quiz_attempts) = 2
        /\ db.quiz_attempts[1].final_score = 0
        /\ get_statistics(db).perfect_scores = 1

\* C7: a submission whose wordIndex is no index from 0 to len(quizData) - 1
\* is never graded against a question: no committed answer row, which is a
\* graded result counted in its attempt's total_count, has such an index.
C7_InvalidIndexNeverGraded ==
    \A i \in 1..Len(db.quiz_answers) :
        db.quiz_answers[i].word_index \in 0..(Len(CATALOG) - 1)

\* C8: when an insert or the commit of a request fails the request fails:
\* the reply carries neither score nor statistics, no step of the request
\* has changed the committed tables and nothing is left pending, and after
\* the failure the thread writes nothing before it grades a new request.
C8_FailedWriteFailsTheRequest ==
    [][\A h \in Handlers :
          /\ (/\ local[h].pc \in {"graded", "inserting"}
              /\ local'[h] # local[h]
              /\ local'[h].pc # "committed") =>
                db' = db
          /\ (local[h].pc \in {"graded", "inserting"} /\ local'[h].pc = "failed") =>
                /\ Val(local'[h].response).status = 500
                /\ "statistics" \notin DOMAIN Val(local'[h].response)
                /\ "score" \notin DOMAIN Val(local'[h].response)
                /\ conn'[h] = None
                /\ write_lock' # Some(h)
          /\ (local[h].pc = "failed" /\ local'[h] # local[h]) =>
                /\ local'[h].pc \in {"graded", "failed"}
                /\ db' = db
                /\ conn'[h] = None]_vars

\* A request failed on an answer row after an attempt was committed, while
\* the other thread holds the write lock.
C8_Witness ==
    /\ local[1].pc = "failed"
    /\ Val(local[1].response).error = "IntegrityError"
    /\ Len(db.quiz_attempts) = 1
    /\ Len(db.quiz_answers) = 2
    /\ write_lock = Some(2)

\* C10: the committed tables are an append-only log: no step changes or
\* removes a committed row, get_quiz and the read of the statistics leave the
\* tables alone, and a step that changes them is the commit of one request,
\* which adds one attempt row and the answer rows of its results.
C10_AppendOnlyLog ==
    [][/\ \A i \in 1..Len(db.quiz_attempts) :
             i <= Len(db'.quiz_attempts) /\ db'.quiz_attempts[i] = db.quiz_attempts[i]
       /\ \A i \in 1..Len(db.quiz_answers) :
             i <= Len(db'.quiz_answers) /\ db'.quiz_answers[i] = db.quiz_answers[i]
       /\ (quiz_response' # quiz_response) => db' = db
       /\ \A h \in Handlers :
             (local[h].pc = "committed" /\ local'[h].pc = "done") => db' = db
       /\ (db' # db) =>
             \E h \in Handlers :
                /\ local[h].pc = "inserting" /\ local'[h].pc = "committed"
                /\ Len(db'.quiz_attempts) = Len(db.quiz_attempts) + 1
                /\ db'.quiz_attempts[Len(db'.quiz_attempts)].id \notin AttemptIds(db)
                /\ Len(db'.quiz_answers) = Len(db.quiz_answers) + Len(local[h].results)
                /\ \A i \in (Len(db.quiz_answers) + 1)..Len(db'.quiz_answers) :
                      db'.quiz_answers[i].attempt_id =
                          db'.quiz_attempts[Len(db'.quiz_attempts)].id
       /\ \A h \in Handlers :
             (local[h].pc = "inserting" /\ local'[h].pc = "committed") => db' # db]_vars

\* Two attempts with their answer rows are committed, and a quiz was fetched
\* since.
C10_Witness ==
    /\ Len(db.quiz_attempts) = 2
    /\ Len(db.quiz_answers) = 3
    /\ local[1].pc = "done"
    /\ quiz_response # None
    /\ Val(quiz_response).quizData[1].ca = "travelled"

====
